---- MODULE Spec2Model ----
(***************************************************************************)
(* Model of the gralloc layout engine: encoding selection                  *)
(* (get_alloc_type), validation (validate_format), geometry                *)
(* (get_pixel_w_h, calc_allocation_size), the entry point                  *)
(* mali_gralloc_derive_format_and_size, and the wire-descriptor mapper     *)
(* (drm_modifier_from_handle).                                             *)
(*                                                                         *)
(* An internal format is a record [id, ext]: the base format id and the    *)
(* decoded extension bits of the 64-bit alloc_format.  Arithmetic is on    *)
(* naturals: the dimensions enumerated below keep every product far below  *)
(* 2^31, so no 32-bit operation of the source wraps in this model.         *)
(***************************************************************************)
EXTENDS Integers, Sequences, FiniteSets, TLC

(***************************************************************************)
(* Bounds of the model.                                                    *)
(***************************************************************************)
MaxLayers == 2
MaxTiles == 1
NThreads == 2
MaxCapsCalls == 2
MaxCount == 2
CounterBits == 2

(***************************************************************************)
(* Program constants.                                                      *)
(***************************************************************************)
AFBC_PIXELS_PER_BLOCK == 256
AFBC_HEADER_BUFFER_BYTES_PER_BLOCKENTRY == 16
AFBC_BODY_BUFFER_BYTE_ALIGNMENT == 1024
MAX_PLANES == 3

Planes == 0 .. (MAX_PLANES - 1)

GRALLOC_ALIGN(value, base) == ((value + base - 1) \div base) * base

max2(a, b) == IF a > b THEN a ELSE b
max3(a, b, c) == IF c > max2(a, b) THEN c ELSE max2(a, b)

(***************************************************************************)
(* Format Catalog: formats[] of format_info.cpp, consumed read-only.       *)
(* Per-plane attributes are functions over plane index 0..2.               *)
(***************************************************************************)
P3(a, b, c) == [p \in Planes |-> IF p = 0 THEN a ELSE IF p = 1 THEN b ELSE c]

Fmt(id, npln, ncmp, bpp_afbc, bpp, hsub, vsub, align_w, align_h, align_w_cpu, tile_size, is_yuv, afbc, linear, afrc, block_linear) ==
    [id |-> id, npln |-> npln, ncmp |-> ncmp, bpp_afbc |-> bpp_afbc, bpp |-> bpp,
     hsub |-> hsub, vsub |-> vsub, align_w |-> align_w, align_h |-> align_h,
     align_w_cpu |-> align_w_cpu, tile_size |-> tile_size, is_yuv |-> is_yuv,
     afbc |-> afbc, linear |-> linear, afrc |-> afrc, block_linear |-> block_linear]

formats ==
    { Fmt("RGBA_8888", 1, P3(4,0,0), P3(32,0,0), P3(32,0,0), 0, 0, 1, 1, 16, 1,
          FALSE, TRUE, TRUE, TRUE, TRUE),
      Fmt("RGB_565", 1, P3(3,0,0), P3(16,0,0), P3(16,0,0), 0, 0, 1, 1, 16, 1,
          FALSE, TRUE, TRUE, FALSE, FALSE),
      Fmt("RGB_888", 1, P3(3,0,0), P3(24,0,0), P3(24,0,0), 0, 0, 1, 1, 16, 1,
          FALSE, TRUE, TRUE, TRUE, FALSE),
      Fmt("RGBA_16161616", 1, P3(4,0,0), P3(64,0,0), P3(64,0,0), 0, 0, 1, 1, 16, 1,
          FALSE, TRUE, TRUE, FALSE, FALSE),
      Fmt("NV12", 2, P3(1,2,0), P3(8,16,0), P3(8,16,0), 2, 2, 2, 2, 16, 1,
          TRUE, TRUE, TRUE, TRUE, TRUE),
      Fmt("YU12", 3, P3(1,1,1), P3(8,8,8), P3(8,8,8), 2, 2, 2, 2, 16, 1,
          TRUE, TRUE, TRUE, TRUE, FALSE),
      Fmt("YV12", 3, P3(1,1,1), P3(8,8,8), P3(8,8,8), 2, 2, 2, 2, 16, 1,
          TRUE, FALSE, TRUE, FALSE, FALSE),
      Fmt("YUV420_8BIT_I", 1, P3(3,0,0), P3(12,0,0), P3(0,0,0), 2, 2, 2, 2, 1, 1,
          TRUE, TRUE, FALSE, FALSE, FALSE),
      Fmt("Y0L2", 1, P3(4,0,0), P3(0,0,0), P3(16,0,0), 2, 2, 2, 2, 2, 2,
          TRUE, FALSE, TRUE, FALSE, FALSE),
      Fmt("BLOB", 1, P3(1,0,0), P3(0,0,0), P3(8,0,0), 0, 0, 1, 1, 1, 1,
          FALSE, FALSE, TRUE, FALSE, FALSE) }

FormatIds == { f.id : f \in formats }

\* get_format_index: the catalog entry of a base format id, or "not found" (-1).
get_format_index(id) == IF id \in FormatIds THEN id ELSE "NOT_FOUND"

FormatOf(idx) == CHOOSE f \in formats : f.id = idx

(***************************************************************************)
(* Internal format: base id plus extension bits (formats.h).               *)
(***************************************************************************)
NoExt == [afbc |-> FALSE, split |-> FALSE, wide |-> FALSE, tiled |-> FALSE,
          extrawide |-> FALSE, dbody |-> FALSE, bch |-> FALSE, ytr |-> FALSE,
          sparse |-> FALSE, usm |-> FALSE,
          afrc |-> FALSE, rot |-> FALSE, cu_luma |-> 0, cu_chroma |-> 0,
          bl |-> FALSE]

UNDEFINED == [id |-> "UNDEFINED", ext |-> NoExt]

is_format_afbc(fmt) == fmt.ext.afbc
is_format_afrc(fmt) == fmt.ext.afrc
is_format_block_linear(fmt) == fmt.ext.bl

\* MALI_GRALLOC_INTFMT_AFRC_CODING_UNIT_BYTES_UNWRAP: 2-bit field -> bytes.
\* Field value 0 names no coding unit size.
AFRC_CODING_UNIT_BYTES_UNWRAP(field) ==
    IF field = 1 THEN 16 ELSE IF field = 2 THEN 24 ELSE IF field = 3 THEN 32 ELSE 0

(***************************************************************************)
(* Usage flags, decoded: CPU read/write, any non-private non-CPU (hardware)*)
(* usage, and the private AFBC padding usage bit.                          *)
(***************************************************************************)
Usage(cpu, hw, afbc_padding) == [cpu |-> cpu, hw |-> hw, afbc_padding |-> afbc_padding]

(***************************************************************************)
(* Encoding Selector: get_alloc_type.                                      *)
(***************************************************************************)
NoAfrc ==
    [paging_tile_width |-> 0, paging_tile_height |-> 0,
     rgba_luma_coding_unit_bytes |-> 0, rgba_luma_plane_alignment |-> 0,
     chroma_coding_unit_bytes |-> 0, chroma_plane_alignment |-> 0,
     clump_width |-> P3(0,0,0), clump_height |-> P3(0,0,0)]

\* alloc_type_t alloc_type{}
ZeroAllocType ==
    [primary_type |-> "UNCOMPRESSED", is_multi_plane |-> FALSE, is_tiled |-> FALSE,
     is_padded |-> FALSE, is_frontbuffer_safe |-> FALSE, afrc |-> NoAfrc]

is_afbc(at) == at.primary_type \in {"AFBC", "AFBC_WIDEBLK", "AFBC_EXTRAWIDEBLK"}
is_afrc(at) == at.primary_type = "AFRC"
is_block_linear(at) == at.primary_type = "BLOCK_LINEAR"

\* A mutation: an unknown coding unit size gets the alignment of size 16.
afrc_plane_alignment_requirement_M(coding_unit_size) ==
    IF coding_unit_size = 24 THEN 512
    ELSE IF coding_unit_size = 32 THEN 2048
    ELSE 1024

afrc_plane_alignment_requirement(coding_unit_size) ==
    IF coding_unit_size = 16 THEN 1024
    ELSE IF coding_unit_size = 24 THEN 512
    ELSE IF coding_unit_size = 32 THEN 2048
    ELSE 0

\* Superblock dimensions of an allocation base type.
get_afbc_sb_size_base(alloc_base_type) ==
    IF alloc_base_type = "AFBC" THEN [width |-> 16, height |-> 16]
    ELSE IF alloc_base_type = "AFBC_WIDEBLK" THEN [width |-> 32, height |-> 8]
    ELSE IF alloc_base_type = "AFBC_EXTRAWIDEBLK" THEN [width |-> 64, height |-> 4]
    ELSE [width |-> 0, height |-> 0]

\* Superblock dimensions for a specific plane.
get_afbc_sb_size(at, plane) ==
    IF plane > 0 /\ is_afbc(at) /\ at.is_multi_plane
    THEN get_afbc_sb_size_base("AFBC_EXTRAWIDEBLK")
    ELSE get_afbc_sb_size_base(at.primary_type)

\* Primary AFBC (superblock) type.
afbc_primary_type(ext) ==
    IF ext.wide THEN "AFBC_WIDEBLK"
    ELSE IF ext.extrawide THEN "AFBC_EXTRAWIDEBLK"
    ELSE "AFBC"

\* A mutation: is_multi_plane stays as initialised, npln > 1.
afbc_is_multi_plane_M(ext, npln) == npln > 1

\* is_multi_plane after the tiled-headers branch: starts as npln > 1, is
\* cleared without tiled headers, and with tiled headers is cleared when a
\* multi-plane format does not signal extra-wide.
afbc_is_multi_plane(ext, npln) ==
    IF ext.tiled
    THEN IF npln > 1 /\ ~ext.extrawide THEN FALSE ELSE npln > 1
    ELSE FALSE

\* Front-buffer safe: only set inside the tiled-headers branch.
afbc_is_frontbuffer_safe(ext) == ext.tiled /\ ext.dbody

\* A mutation: extra-wide without tiled headers is let through.
afbc_extrawide_untiled_M(ext, is_tiled) == FALSE

\* "Invalid to specify extra-wide block without tiled headers."
afbc_extrawide_untiled(ext, is_tiled) == ext.extrawide /\ ~is_tiled

\* "Invalid to specify multiplane AFBC with single plane format."
\* A mutation: wide + extra-wide on a single-plane format is accepted.
afbc_implicit_multiplane_M(ext, npln) == FALSE

afbc_implicit_multiplane(ext, npln) == npln = 1 /\ ext.wide /\ ext.extrawide

afbc_alloc_type(ext, format, usage) ==
    LET at == [ZeroAllocType EXCEPT
                 !.primary_type = afbc_primary_type(ext),
                 !.is_tiled = ext.tiled,
                 !.is_multi_plane = afbc_is_multi_plane(ext, format.npln),
                 !.is_frontbuffer_safe = afbc_is_frontbuffer_safe(ext)]
    IN  IF afbc_extrawide_untiled(ext, at.is_tiled) THEN [ok |-> FALSE, at |-> at]
        ELSE IF afbc_implicit_multiplane(ext, format.npln) THEN [ok |-> FALSE, at |-> at]
        ELSE [ok |-> TRUE, at |-> [at EXCEPT !.is_padded = usage.afbc_padding]]

afrc_clump_valid(format) == \A p \in 0 .. (format.npln - 1) : format.ncmp[p] \in 1 .. 4

afrc_clump_width(format, ptw, plane) ==
    IF plane >= format.npln THEN 0
    ELSE IF format.ncmp[plane] = 1 THEN ptw
    ELSE IF format.ncmp[plane] = 2 THEN 8
    ELSE 4

afrc_clump_height(format, pth, plane) ==
    IF plane >= format.npln THEN 0
    ELSE IF format.ncmp[plane] = 1 THEN pth
    ELSE 4

afrc_alloc_type(ext, format) ==
    LET ptw == IF ext.rot THEN 8 ELSE 16
        pth == IF ext.rot THEN 8 ELSE 4
        lcu == AFRC_CODING_UNIT_BYTES_UNWRAP(ext.cu_luma)
        lal == afrc_plane_alignment_requirement(lcu)
        ccu == AFRC_CODING_UNIT_BYTES_UNWRAP(ext.cu_chroma)
        cal == afrc_plane_alignment_requirement(ccu)
        a1 == [NoAfrc EXCEPT !.paging_tile_width = ptw, !.paging_tile_height = pth,
                             !.rgba_luma_coding_unit_bytes = lcu,
                             !.rgba_luma_plane_alignment = lal]
        a2 == [a1 EXCEPT !.chroma_coding_unit_bytes = ccu,
                         !.chroma_plane_alignment = cal]
        a3 == [a2 EXCEPT
                 !.clump_width = [p \in Planes |-> afrc_clump_width(format, ptw, p)],
                 !.clump_height = [p \in Planes |-> afrc_clump_height(format, pth, p)]]
        at0 == [ZeroAllocType EXCEPT !.primary_type = "AFRC",
                                     !.is_multi_plane = format.npln > 1]
    IN  IF lal = 0 THEN [ok |-> FALSE, at |-> [at0 EXCEPT !.afrc = a1]]
        ELSE IF cal = 0 THEN [ok |-> FALSE, at |-> [at0 EXCEPT !.afrc = a2]]
        ELSE IF ~afrc_clump_valid(format) THEN [ok |-> FALSE, at |-> [at0 EXCEPT !.afrc = a2]]
        ELSE [ok |-> TRUE, at |-> [at0 EXCEPT !.afrc = a3]]

get_alloc_type(format_ext, format_idx, usage) ==
    LET format == FormatOf(format_idx)
        base == [ZeroAllocType EXCEPT !.is_multi_plane = format.npln > 1]
    IN  IF is_format_afbc(format_ext) THEN afbc_alloc_type(format_ext.ext, format, usage)
        ELSE IF is_format_afrc(format_ext) THEN afrc_alloc_type(format_ext.ext, format)
        ELSE IF is_format_block_linear(format_ext)
             THEN [ok |-> TRUE, at |-> [base EXCEPT !.primary_type = "BLOCK_LINEAR"]]
        ELSE [ok |-> TRUE, at |-> base]

(***************************************************************************)
(* validate_format: capability flags and structural rules.                 *)
(***************************************************************************)
\* A mutation: the plane-count consistency check is dropped.
afbc_plane_mismatch_M(format, at) == FALSE

\* Consistency between number of format planes and single/multi-plane AFBC.
afbc_plane_mismatch(format, at) ==
    \/ (format.npln = 1 /\ at.is_multi_plane)
    \/ (format.npln > 1 /\ ~at.is_multi_plane)

\* A mutation: the BLOB height rule is dropped.
blob_height_invalid_M(format, height) == FALSE

\* "Height for format BLOB must be 1."
blob_height_invalid(format, height) == format.id = "BLOB" /\ height # 1

\* A mutation: the linear flag of the format is not consulted.
family_supported_M(format, at) ==
    IF is_afbc(at) THEN format.afbc
    ELSE IF is_afrc(at) THEN format.afrc
    ELSE IF is_block_linear(at) THEN format.block_linear
    ELSE TRUE

\* The capability flag of the format for the encoding family of at.
family_supported(format, at) ==
    IF is_afbc(at) THEN format.afbc
    ELSE IF is_afrc(at) THEN format.afrc
    ELSE IF is_block_linear(at) THEN format.block_linear
    ELSE format.linear

validate_format(format, at, height) ==
    IF ~family_supported(format, at) THEN FALSE
    ELSE IF is_afbc(at) /\ afbc_plane_mismatch(format, at) THEN FALSE
    ELSE IF blob_height_invalid(format, height) THEN FALSE
    ELSE TRUE

(***************************************************************************)
(* Geometry Calculator.                                                    *)
(***************************************************************************)
\* A mutation: the alignment is not raised for tiled headers.
afbc_buffer_align_M(is_tiled, size) == GRALLOC_ALIGN(size, AFBC_BODY_BUFFER_BYTE_ALIGNMENT)

afbc_buffer_align(is_tiled, size) ==
    GRALLOC_ALIGN(size, IF is_tiled THEN 4 * AFBC_BODY_BUFFER_BYTE_ALIGNMENT
                                    ELSE AFBC_BODY_BUFFER_BYTE_ALIGNMENT)

\* Pixel alignment [w, h] of a plane, before the tile_size floor.
pixel_align(format, at, plane, has_cpu_usage) ==
    IF has_cpu_usage THEN [w |-> format.align_w_cpu, h |-> 1]
    ELSE IF is_afbc(at) THEN
        LET sb == get_afbc_sb_size(at, plane)
            num_sb_align == IF at.is_padded /\ ~format.is_yuv THEN 4 ELSE 0
            w0 == max2(0, num_sb_align) * sb.width
            mult == IF format.bpp_afbc[plane] > 32 THEN 4 ELSE 8
            tile_w == IF at.is_tiled THEN mult * sb.width ELSE sb.width
            tile_h == IF at.is_tiled THEN mult * sb.height ELSE sb.height
            h0 == max2(1, tile_h)
        IN  [w |-> max2(w0, tile_w),
             h |-> IF at.primary_type = "AFBC_WIDEBLK" /\ ~at.is_tiled
                   THEN max2(h0, 16) ELSE h0]
    ELSE IF is_afrc(at) THEN
        [w |-> at.afrc.paging_tile_width * at.afrc.clump_width[plane],
         h |-> at.afrc.paging_tile_height * at.afrc.clump_height[plane]]
    ELSE IF is_block_linear(at) THEN [w |-> 16, h |-> 16]
    ELSE [w |-> 1, h |-> 1]

\* Plane allocation dimensions (in pixels).
get_pixel_w_h(width, height, format, at, plane, has_cpu_usage) ==
    LET w1 == GRALLOC_ALIGN(width, format.align_w)
        h1 == GRALLOC_ALIGN(height, format.align_h)
        w2 == IF plane > 0 THEN w1 \div format.hsub ELSE w1
        h2 == IF plane > 0 THEN h1 \div format.vsub ELSE h1
        pa == pixel_align(format, at, plane, has_cpu_usage)
    IN  [width |-> GRALLOC_ALIGN(w2, max3(1, pa.w, format.tile_size)),
         height |-> GRALLOC_ALIGN(h2, max3(1, pa.h, format.tile_size))]

RECURSIVE gcd_loop(_, _)
gcd_loop(a, b) == IF b = 0 THEN a ELSE gcd_loop(b, a % b)

gcd(a, b) == IF a = b THEN a ELSE IF a < b THEN gcd_loop(b, a) ELSE gcd_loop(a, b)

lcm(a, b) == IF a # 0 /\ b # 0 THEN (a * b) \div gcd(a, b) ELSE max2(a, b)

\* A mutation: the luma stride is aligned to the combined alignment only.
update_yv12_stride_M(plane, luma_stride, stride_align, byte_stride) ==
    IF plane = 0 THEN GRALLOC_ALIGN(luma_stride, stride_align)
    ELSE luma_stride \div 2

update_yv12_stride(plane, luma_stride, stride_align, byte_stride) ==
    IF plane = 0 THEN GRALLOC_ALIGN(luma_stride, 2 * stride_align)
    ELSE luma_stride \div 2

\* A mutation: the hardware alignment of YUV formats is that of the others.
stride_alignment_M(format, plane, has_cpu_usage, has_hw_usage) ==
    LET hw_align == IF has_hw_usage THEN 64 ELSE 0
        cpu_align == IF has_cpu_usage
                     THEN (format.bpp[plane] * format.align_w_cpu) \div 8 ELSE 0
    IN  lcm(hw_align, cpu_align)

\* Alignment of the byte stride of an uncompressed plane.
stride_alignment(format, plane, has_cpu_usage, has_hw_usage) ==
    LET hw_align == IF has_hw_usage THEN (IF format.is_yuv THEN 128 ELSE 64) ELSE 0
        cpu_align == IF has_cpu_usage
                     THEN (format.bpp[plane] * format.align_w_cpu) \div 8 ELSE 0
    IN  lcm(hw_align, cpu_align)

\* Byte stride of a plane; info0 is plane_info[0] as it stands when the plane
\* is computed (for plane 0, with alloc_width/alloc_height already written).
plane_byte_stride(format, at, plane, alloc_width, info0, has_cpu_usage, has_hw_usage) ==
    IF is_afrc(at) THEN
        LET cu == IF plane = 0 THEN at.afrc.rgba_luma_coding_unit_bytes
                               ELSE at.afrc.chroma_coding_unit_bytes
            paging_tile_stride ==
                (alloc_width \div at.afrc.clump_width[plane]) \div at.afrc.paging_tile_width
        IN  paging_tile_stride * 64 * cu
    ELSE IF is_afbc(at) THEN (alloc_width * format.bpp_afbc[plane]) \div 8
    ELSE IF is_block_linear(at) THEN
        LET sample_height == IF plane > 0 THEN 16 \div format.vsub ELSE 16
            sample_width == IF plane > 0 THEN 16 \div format.hsub ELSE 16
            bytes_per_block == (sample_height * sample_width * format.bpp[plane]) \div 8
            number_of_x_blocks == info0.alloc_width \div 16
        IN  number_of_x_blocks * bytes_per_block
    ELSE
        LET s0 == (alloc_width * format.bpp[plane]) \div 8
            stride_align == stride_alignment(format, plane, has_cpu_usage, has_hw_usage)
            s1 == IF stride_align # 0
                  THEN GRALLOC_ALIGN(s0 * format.tile_size, stride_align) \div format.tile_size
                  ELSE s0
        IN  IF format.id = "YV12" /\ has_hw_usage /\ has_cpu_usage
            THEN update_yv12_stride(plane, IF plane = 0 THEN s1 ELSE info0.byte_stride,
                                    stride_align, s1)
            ELSE s1

\* A mutation: no body is re-aligned.
afbc_body_realigned_M(format, plane) == FALSE

\* Is the non-last-plane body re-aligned: "format.npln > 1 && plane < 2".
afbc_body_realigned(format, plane) == format.npln > 1 /\ plane < 2

\* Body size of a plane; info0 is plane_info[0].
plane_body_size(format, at, plane, alloc_width, alloc_height, byte_stride, info0) ==
    LET sb_num == (alloc_width * alloc_height) \div AFBC_PIXELS_PER_BLOCK
    IN  IF is_afbc(at) THEN
            LET sb == get_afbc_sb_size(at, plane)
                sb_bytes == GRALLOC_ALIGN((format.bpp_afbc[plane] * sb.width * sb.height) \div 8, 128)
                b0 == sb_num * sb_bytes
                b1 == IF afbc_body_realigned(format, plane)
                      THEN afbc_buffer_align(at.is_tiled, b0) ELSE b0
            IN  IF at.is_frontbuffer_safe
                THEN b1 + afbc_buffer_align(at.is_tiled, b1) ELSE b1
        ELSE IF is_afrc(at) THEN
            LET cu == IF plane = 0 THEN at.afrc.rgba_luma_coding_unit_bytes
                                   ELSE at.afrc.chroma_coding_unit_bytes
                s_coding_units == alloc_width \div at.afrc.clump_width[plane]
                t_coding_units == alloc_height \div at.afrc.clump_height[plane]
            IN  s_coding_units * t_coding_units * cu
        ELSE IF is_block_linear(at) THEN byte_stride * (info0.alloc_height \div 16)
        ELSE byte_stride * alloc_height

\* Header size of a plane.
plane_header_size(at, alloc_width, alloc_height) ==
    LET sb_num == (alloc_width * alloc_height) \div AFBC_PIXELS_PER_BLOCK
    IN  IF is_afbc(at)
        THEN afbc_buffer_align(at.is_tiled, sb_num * AFBC_HEADER_BUFFER_BYTES_PER_BLOCKENTRY)
        ELSE 0

\* A mutation: the running total is not aligned before the plane.
size_before_plane_M(at, plane, size) == size

\* Running total before the plane's offset is taken: aligned for AFRC.
size_before_plane(at, plane, size) ==
    IF is_afrc(at)
    THEN GRALLOC_ALIGN(size, IF plane = 0 THEN at.afrc.rgba_luma_plane_alignment
                                          ELSE at.afrc.chroma_plane_alignment)
    ELSE size

\* A mutation: the pixel stride is derived without CPU usage too.
cpu_pixel_stride_M(format, at, byte_stride, has_cpu_usage) ==
    IF ~is_afbc(at) /\ ~is_afrc(at) /\ ~is_block_linear(at)
    THEN (byte_stride * 8) \div format.bpp[0]
    ELSE 0

\* CPU-visible pixel stride, from plane 0.
cpu_pixel_stride(format, at, byte_stride, has_cpu_usage) ==
    IF ~is_afbc(at) /\ ~is_afrc(at) /\ ~is_block_linear(at) /\ has_cpu_usage
    THEN (byte_stride * 8) \div format.bpp[0]
    ELSE 0

PlaneInfo(offset, byte_stride, alloc_width, alloc_height) ==
    [offset |-> offset, byte_stride |-> byte_stride,
     alloc_width |-> alloc_width, alloc_height |-> alloc_height]

ZeroPlaneInfo == [p \in Planes |-> PlaneInfo(0, 0, 0, 0)]

\* The offset a plane records: the running total, for planes after the first.
plane_offset(plane, old_offset, size) == IF plane > 0 THEN size ELSE old_offset

\* A mutation: the header is left out of the running total.
size_after_plane_M(size, body_size, header_size) == size + body_size

\* The running total after a plane.
size_after_plane(size, body_size, header_size) == size + body_size + header_size

\* plane_info[0] as the plane's stride and body computations read it.
plane_info0(out, plane, wh) ==
    IF plane = 0
    THEN [out.plane_info[0] EXCEPT !.alloc_width = wh.width, !.alloc_height = wh.height]
    ELSE out.plane_info[0]

\* The out-parameters after a plane, from the plane's dimensions wh, byte
\* stride bs, body and header sizes and the running total sz before it.
calc_plane_write(out, plane, at, format, has_cpu_usage, wh, bs, body, header, sz) ==
    [pixel_stride |-> IF plane = 0 THEN cpu_pixel_stride(format, at, bs, has_cpu_usage)
                                   ELSE out.pixel_stride,
     size |-> size_after_plane(sz, body, header),
     plane_info |-> [out.plane_info EXCEPT
                       ![plane] = PlaneInfo(plane_offset(plane, out.plane_info[plane].offset, sz),
                                            bs, wh.width, wh.height)],
     body |-> [out.body EXCEPT ![plane] = body],
     header |-> [out.header EXCEPT ![plane] = header]]

calc_plane_sizes(out, plane, at, format, has_cpu_usage, wh, info0, bs) ==
    calc_plane_write(out, plane, at, format, has_cpu_usage, wh, bs,
                     plane_body_size(format, at, plane, wh.width, wh.height, bs, info0),
                     plane_header_size(at, wh.width, wh.height),
                     size_before_plane(at, plane, out.size))

calc_plane_stride(out, plane, at, format, has_cpu_usage, has_hw_usage, wh, info0) ==
    calc_plane_sizes(out, plane, at, format, has_cpu_usage, wh, info0,
                     plane_byte_stride(format, at, plane, wh.width, info0,
                                       has_cpu_usage, has_hw_usage))

calc_plane_dims(out, plane, at, format, has_cpu_usage, has_hw_usage, wh) ==
    calc_plane_stride(out, plane, at, format, has_cpu_usage, has_hw_usage, wh,
                      plane_info0(out, plane, wh))

\* One iteration of the plane loop of calc_allocation_size.  out = [pixel_stride,
\* size, plane_info, body, header] is the state of the out-parameters.
calc_plane(out, plane, width, height, at, format, has_cpu_usage, has_hw_usage) ==
    calc_plane_dims(out, plane, at, format, has_cpu_usage, has_hw_usage,
                    get_pixel_w_h(width, height, format, at, plane, has_cpu_usage))

RECURSIVE calc_planes(_, _, _, _, _, _, _, _)
calc_planes(out, plane, width, height, at, format, has_cpu_usage, has_hw_usage) ==
    IF plane >= format.npln THEN out
    ELSE calc_planes(calc_plane(out, plane, width, height, at, format, has_cpu_usage, has_hw_usage),
                     plane + 1, width, height, at, format, has_cpu_usage, has_hw_usage)

\* A mutation: the running total is not reset.
initial_size_M(old_size) == old_size

\* The size the plane loop starts from: "*size = 0".
initial_size(old_size) == 0

\* calc_allocation_size: old_* are the out-parameters as the caller passes them.
calc_allocation_size(width, height, at, format, has_cpu_usage, has_hw_usage, old_pixel_stride, old_size, old_plane_info) ==
    calc_planes([pixel_stride |-> old_pixel_stride,
                 size |-> initial_size(old_size),
                 plane_info |-> [old_plane_info EXCEPT ![0].offset = 0],
                 body |-> P3(0,0,0), header |-> P3(0,0,0)],
                0, width, height, at, format, has_cpu_usage, has_hw_usage)

(***************************************************************************)
(* mali_gralloc_derive_format_and_size on a buffer descriptor.             *)
(***************************************************************************)
\* mali_gralloc_select_format: the internal format chosen for the request's
\* hal_format, format_type and usage; the request carries the outcome.
mali_gralloc_select_format(d) == d.sel

\* mali_gralloc_adjust_dimensions: no usage of the model adjusts the frame.
mali_gralloc_adjust_dimensions(alloc_format, usage, width, height) ==
    [width |-> width, height |-> height]

Result(d, ret, stage, at, calc) ==
    [d |-> d, ret |-> ret, stage |-> stage, at |-> at, calc |-> calc]

NoCalc == [pixel_stride |-> 0, size |-> 0, plane_info |-> ZeroPlaneInfo,
           body |-> P3(0,0,0), header |-> P3(0,0,0)]

\* A mutation: the layers are not aligned.
layered_size_M(alloc_format, size, layer_count) == size * layer_count

\* Size of all layers.
layered_size(alloc_format, size, layer_count) ==
    IF layer_count > 1
    THEN (IF is_format_afbc(alloc_format)
          THEN (IF alloc_format.ext.tiled THEN GRALLOC_ALIGN(size, 4096)
                                          ELSE GRALLOC_ALIGN(size, 128))
          ELSE size) * layer_count
    ELSE size

\* The descriptor and result once calc_allocation_size has returned out.
derive_layout_write(d, at, out) ==
    Result([d EXCEPT !.pixel_stride = out.pixel_stride,
                     !.plane_info = out.plane_info,
                     !.size = layered_size(d.alloc_format, out.size, d.layer_count)],
           "OK", "done", at, out)

derive_layout_dims(d, format, at, dim) ==
    derive_layout_write(d, at,
        calc_allocation_size(dim.width, dim.height, at, format, d.usage.cpu, d.usage.hw,
                             d.pixel_stride, d.size, d.plane_info))

\* The layout part: adjust dimensions, calc_allocation_size, layers.
derive_layout(d, format, at) ==
    derive_layout_dims(d, format, at,
        mali_gralloc_adjust_dimensions(d.alloc_format, d.usage, d.width, d.height))

\* A mutation: the layout is written before the format is validated.
derive_validated_M(d, format, at) ==
    IF ~validate_format(format, at, d.height)
    THEN Result(derive_layout(d, format, at).d, "EINVAL", "validate_format", at, NoCalc)
    ELSE derive_layout(d, format, at)

\* validate_format, then the layout.
derive_validated(d, format, at) ==
    IF ~validate_format(format, at, d.height)
    THEN Result(d, "EINVAL", "validate_format", at, NoCalc)
    ELSE derive_layout(d, format, at)

\* From the outcome gat of get_alloc_type on.
derive_alloc_type(d, format_idx, gat) ==
    IF ~gat.ok
    THEN Result(d, "EINVAL", "get_alloc_type", gat.at, NoCalc)
    ELSE derive_validated(d, FormatOf(format_idx), gat.at)

\* From the selected format (written to d.alloc_format) on.
derive_selected(d) ==
    IF d.alloc_format = UNDEFINED
    THEN Result(d, "EINVAL", "select_format", ZeroAllocType, NoCalc)
    ELSE IF get_format_index(d.alloc_format.id) = "NOT_FOUND"
    THEN Result(d, "EINVAL", "get_format_index", ZeroAllocType, NoCalc)
    ELSE derive_alloc_type(d, get_format_index(d.alloc_format.id),
                           get_alloc_type(d.alloc_format,
                                          get_format_index(d.alloc_format.id), d.usage))

mali_gralloc_derive_format_and_size(d0) ==
    derive_selected([d0 EXCEPT !.alloc_format = mali_gralloc_select_format(d0)])

(***************************************************************************)
(* Requests enumerated by the model.                                       *)
(***************************************************************************)
Widths == {1, 17} \cup { 64 * k : k \in 1 .. MaxTiles }
Heights == {1, 2} \cup { 64 * k : k \in 1 .. MaxTiles }

Usages == { Usage(c, h, FALSE) : c \in BOOLEAN, h \in BOOLEAN } \cup { Usage(FALSE, TRUE, TRUE) }

AfbcExts ==
    { [NoExt EXCEPT !.afbc = TRUE, !.wide = w, !.extrawide = x, !.tiled = t, !.dbody = b] :
        w \in BOOLEAN, x \in BOOLEAN, t \in BOOLEAN, b \in BOOLEAN }

CuPairs == { <<1,1>>, <<2,3>>, <<3,2>>, <<0,1>>, <<1,0>> }

AfrcExts ==
    { [NoExt EXCEPT !.afrc = TRUE, !.rot = r, !.cu_luma = c[1], !.cu_chroma = c[2]] :
        r \in BOOLEAN, c \in CuPairs }

BlockLinearExt == [NoExt EXCEPT !.bl = TRUE]

LayoutExts == {NoExt, BlockLinearExt} \cup AfbcExts \cup AfrcExts

SelectedFormats ==
    {UNDEFINED} \cup { [id |-> i, ext |-> e] : i \in FormatIds \cup {"UNKNOWN"}, e \in LayoutExts }

Descriptor(width, height, sel, usage, layer_count) ==
    [width |-> width, height |-> height, sel |-> sel, usage |-> usage,
     layer_count |-> layer_count,
     alloc_format |-> UNDEFINED, size |-> 0, pixel_stride |-> 0,
     plane_info |-> ZeroPlaneInfo]

Requests ==
    { Descriptor(w, h, f, u, l) :
        w \in Widths, h \in Heights, f \in SelectedFormats, u \in Usages,
        l \in 1 .. MaxLayers }

\* The output fields of a descriptor.
Outputs(d) == [alloc_format |-> d.alloc_format, size |-> d.size,
               pixel_stride |-> d.pixel_stride, plane_info |-> d.plane_info]

NoResult == [ret |-> "NONE", stage |-> "none", at |-> ZeroAllocType, calc |-> NoCalc]

\* A private_handle_t as the wire-descriptor mapper reads it.
Handle(alloc_format, plane_info, origin) ==
    [alloc_format |-> alloc_format, plane_info |-> plane_info, origin |-> origin,
     backing_store_id |-> [hi |-> 0, lo |-> 0]]

NoHandle == Handle(UNDEFINED, ZeroPlaneInfo, "none")

NoDrm == [state |-> "none"]

(***************************************************************************)
(* Process-wide state: the capability tables of capabilities.cpp and the   *)
(* counter of getUniqueId, shared by the threads of the process.           *)
(***************************************************************************)
Threads == 1 .. NThreads

\* caps_init_mutex (0: unlocked, else the owning thread), runtime_caps_read
\* and the *_runtime_caps tables before any call; pc, kind and calls are the
\* position, the entry point and the number of completed calls of a thread.
\* inits, returned and late_write record the history: the calls that ran the
\* initialization, whether a call has returned, and whether a table or the
\* flag was written after that.
CapsInit ==
    [mutex |-> 0, runtime_caps_read |-> FALSE, tables |-> "unset",
     pc |-> [t \in Threads |-> "idle"],
     kind |-> [t \in Threads |-> "none"],
     calls |-> [t \in Threads |-> 0],
     copy |-> [t \in Threads |-> "none"],
     inits |-> 0, returned |-> FALSE, late_write |-> FALSE]

\* getpid() of the process.
ProcessId == 7

\* "id | counter": the pid in the upper and the counter in the lower 32 bits.
UniqueId(hi, lo) == [hi |-> hi, lo |-> lo]

\* The counter of getUniqueId wraps at 2^CounterBits (2^32 in the source).
CounterModulus == 2 ^ CounterBits

MaxIds == CounterModulus + 1

\* static std::atomic<uint32_t> counter(0); issued is the sequence of ids
\* returned so far, hi and lo the locals of a thread inside getUniqueId.
IdsInit ==
    [counter |-> 0, issued |-> << >>,
     pc |-> [t \in Threads |-> "idle"],
     hi |-> [t \in Threads |-> 0],
     lo |-> [t \in Threads |-> 0]]

\* "counter++" on std::atomic<uint32_t>.
counter_next(counter) == (counter + 1) % CounterModulus

\* common::allocate of one IAllocator request: the locals error, stride and
\* grallocBuffers, the loop index i, the position pc in the function and the
\* index k of the freeing loop.  called is the sequence of hidl_cb invocations,
\* succeeded the buffers mali_gralloc_buffer_allocate returned and frees the
\* sequence of mali_gralloc_buffer_free calls, each with whether hidl_cb had
\* been invoked before it.  A buffer is named by the iteration that made it.
AllocIdle ==
    [pc |-> "idle", count |-> 0, i |-> 0, error |-> "NONE", stride |-> 0,
     grallocBuffers |-> << >>, k |-> 1,
     called |-> << >>, succeeded |-> {}, frees |-> << >>]

VARIABLES desc, res, before, hnd, drm, caps, ids, alloc

vars == <<desc, res, before, hnd, drm, caps, ids, alloc>>

Init ==
    /\ desc \in Requests
    /\ res = NoResult
    /\ before = [out |-> Outputs(desc), ret |-> "NONE"]
    /\ hnd = NoHandle
    /\ drm = NoDrm
    /\ caps = CapsInit
    /\ ids = IdsInit
    /\ alloc = AllocIdle

\* A call of mali_gralloc_derive_format_and_size on the descriptor.
ResultOf(r) == [ret |-> r.ret, stage |-> r.stage, at |-> r.at, calc |-> r.calc]

\* The descriptor and the call record after a call that produced r.
Returned(r) ==
    /\ desc' = r.d
    /\ res' = ResultOf(r)
    /\ before' = [out |-> Outputs(desc), ret |-> res.ret]

Derive ==
    /\ Returned(mali_gralloc_derive_format_and_size(desc))
    /\ UNCHANGED <<hnd, drm, caps, ids, alloc>>

Next == Derive

Spec == Init /\ [][Next]_vars

(***************************************************************************)
(* Properties of the layout engine (specification Spec).                   *)
(***************************************************************************)
Called == res.ret # "NONE"

Known == desc.alloc_format.id \in FormatIds

SelFormat == FormatOf(desc.alloc_format.id)

NPln == IF Called /\ Known THEN SelFormat.npln ELSE 0

\* C1: a block-compressed request with the extra-wide flag and without the
\* tiled-headers flag fails, for every format, dimension and usage:
\* get_alloc_type returns false (whenever it is reached), the call returns an
\* error and no layout is written.
C1_ExtraWideUntiledFails ==
    (Called /\ desc.alloc_format.ext.afbc /\ desc.alloc_format.ext.extrawide
            /\ ~desc.alloc_format.ext.tiled)
    => /\ res.ret = "EINVAL"
       /\ Known => res.stage = "get_alloc_type"
       /\ Known => ~get_alloc_type(desc.alloc_format, desc.alloc_format.id, desc.usage).ok
       /\ res.calc = NoCalc
       /\ desc.size = before.out.size /\ desc.plane_info = before.out.plane_info

C1_Witness ==
    /\ Called /\ Known /\ desc.alloc_format.ext.afbc /\ desc.alloc_format.ext.extrawide
    /\ ~desc.alloc_format.ext.tiled /\ ~desc.alloc_format.ext.wide
    /\ SelFormat.npln = 1 /\ SelFormat.afbc
    /\ res.stage = "get_alloc_type" /\ res.ret = "EINVAL"

\* The case of C2: a multi-plane format that supports block compression,
\* block compression selected, tiled headers (and extra-wide) not requested.
C2_Case ==
    /\ Called /\ Known /\ SelFormat.npln > 1 /\ SelFormat.afbc
    /\ desc.alloc_format.ext.afbc /\ ~desc.alloc_format.ext.tiled
    /\ ~desc.alloc_format.ext.extrawide

C3_BlobHeightRejected ==
    (Called /\ desc.alloc_format.id = "BLOB" /\ desc.height # 1)
    => /\ res.ret = "EINVAL"
       /\ res.stage \in {"get_alloc_type", "validate_format"}
       /\ LET gat == get_alloc_type(desc.alloc_format, "BLOB", desc.usage)
          IN  gat.ok => ~validate_format(SelFormat, gat.at, desc.height)

C3_Witness ==
    /\ Called /\ desc.alloc_format = [id |-> "BLOB", ext |-> NoExt]
    /\ desc.height = 2 /\ desc.usage.cpu /\ desc.usage.hw
    /\ res.stage = "validate_format" /\ res.ret = "EINVAL"

\* C4 as claimed: in every layout plane 0 has offset 0 and the offsets of
\* consecutive planes are strictly increasing.
C4_OffsetsStrictlyIncreasing ==
    res.ret = "OK"
    => /\ desc.plane_info[0].offset = 0
       /\ \A p \in 0 .. (NPln - 2) :
            desc.plane_info[p].offset < desc.plane_info[p + 1].offset

\* The end of the byte range of a plane in the single-layer layout.
PlaneEnd(p) == res.calc.plane_info[p].offset + res.calc.header[p] + res.calc.body[p]

RECURSIVE SumBody(_)
SumBody(n) == IF n = 0 THEN 0 ELSE res.calc.body[n - 1] + SumBody(n - 1)

\* C5: the total size is at least the sum of the plane body sizes, and the
\* byte ranges [offset, offset + header + body) of distinct planes are
\* disjoint and lie within [0, total size).
C5_PlanesDisjointWithinTotal ==
    res.ret = "OK"
    => /\ res.calc.size >= SumBody(NPln)
       /\ \A p \in 0 .. (NPln - 1) :
            /\ res.calc.plane_info[p].offset >= 0
            /\ PlaneEnd(p) <= res.calc.size
       /\ \A p, q \in 0 .. (NPln - 1) :
            p < q => PlaneEnd(p) <= res.calc.plane_info[q].offset

C5_Witness ==
    /\ res.ret = "OK" /\ NPln = 3 /\ is_afbc(res.at)
    /\ \A p \in 0 .. 2 : res.calc.header[p] > 0 /\ res.calc.body[p] > 0

\* C6: a second call on a descriptor the first call has filled returns
\* success again and leaves alloc_format, size, pixel_stride and plane_info as
\* the first call wrote them.
C6_Idempotent ==
    (Called /\ before.ret = "OK")
    => (res.ret = "OK" /\ Outputs(desc) = before.out)

C6_Witness ==
    /\ before.ret = "OK" /\ res.ret = "OK" /\ desc.layer_count > 1 /\ desc.size > 0
    /\ NPln > 1

\* C9 as claimed: a call that returns an error leaves alloc_format, size,
\* pixel_stride and plane_info as they were before the call.
C9_ErrorLeavesOutputs ==
    res.ret = "EINVAL" => Outputs(desc) = before.out

\* C9 amended: a call that returns an error leaves size, pixel_stride and
\* plane_info as they were before the call; alloc_format holds the format
\* that was selected.
C9_ErrorLeavesLayout ==
    res.ret = "EINVAL"
    => /\ desc.size = before.out.size
       /\ desc.pixel_stride = before.out.pixel_stride
       /\ desc.plane_info = before.out.plane_info
       /\ desc.alloc_format = desc.sel

C9_Witness ==
    /\ res.ret = "EINVAL" /\ res.stage = "validate_format"
    /\ desc.alloc_format # before.out.alloc_format

(***************************************************************************)
(* Wire Descriptor Mapper: drm_utils.cpp.                                  *)
(***************************************************************************)
Entry(id, fourcc, colormodel) == [id |-> id, fourcc |-> fourcc, colormodel |-> colormodel]

table ==
    { Entry("RAW16", "R16", "rgb"),
      Entry("RGBA_8888", "ABGR8888", "rgb"),
      Entry("BGRA_8888", "ARGB8888", "rgb"),
      Entry("RGB_565", "RGB565", "rgb"),
      Entry("RGBX_8888", "XBGR8888", "rgb"),
      Entry("RGB_888", "BGR888", "rgb"),
      Entry("RGBA_1010102", "ABGR2101010", "rgb"),
      Entry("RGBA_16161616", "ABGR16161616F", "rgb"),
      Entry("RGBA_10101010", "AXBXGXRX106106106106", "rgb"),
      Entry("YV12", "YVU420", "yuv"),
      Entry("YU12", "YUV420", "yuv"),
      Entry("NV12", "NV12", "yuv"),
      Entry("NV15", "NV15", "yuv"),
      Entry("NV16", "NV16", "yuv"),
      Entry("NV21", "NV21", "yuv"),
      Entry("Y0L2", "Y0L2", "yuv"),
      Entry("Y210", "Y210", "yuv"),
      Entry("P010", "P010", "yuv"),
      Entry("P210", "P210", "yuv"),
      Entry("Y410", "Y410", "yuv"),
      Entry("YUV444", "YUV444", "yuv"),
      Entry("Q410", "Q410", "yuv"),
      Entry("Q401", "Q401", "yuv"),
      Entry("YUV422_8BIT", "YUYV", "yuv"),
      Entry("YUV420_8BIT_I", "YUV420_8BIT", "yuv"),
      Entry("YUV420_10BIT_I", "YUV420_10BIT", "yuv"),
      Entry("HAL_YCBCR_P010", "P010", "yuv") }

TableIds == { e.id : e \in table }

table_find(id) == CHOOSE e \in table : e.id = id

\* private_handle_t::is_multi_plane: a second plane is laid out.
hnd_is_multi_plane(h) == h.plane_info[1].byte_stride # 0

Modifier(kind, tags, block_size, cu_p0, cu_p12) ==
    [kind |-> kind, tags |-> tags, block_size |-> block_size,
     cu_p0 |-> cu_p0, cu_p12 |-> cu_p12]

\* The modifier 0.
ZeroModifier == Modifier("ZERO", {}, "NONE", 0, 0)

\* A mutation: an id that is not in the table is taken as an rgb entry.
afrc_entry_found_M(id) == TRUE

\* "entry == table.end()" of get_afrc_modifier_tags.
afrc_entry_found(id) == id \in TableIds

\* A mutation: the scan-layout bit follows the rotated-layout flag.
afrc_layout_tags_M(ext) == IF ext.rot THEN {"LAYOUT_SCAN"} ELSE {}

\* AFRC_FORMAT_MOD_LAYOUT_SCAN is set when ROT_LAYOUT is not.
afrc_layout_tags(ext) == IF ~ext.rot THEN {"LAYOUT_SCAN"} ELSE {}

\* The switch on a coding-unit field: AFRC_FORMAT_MOD_CU_SIZE_16/24/32, or no
\* bits for a field value that names no size.
afrc_cu_size(field) ==
    IF field = 3 THEN 32 ELSE IF field = 2 THEN 24 ELSE IF field = 1 THEN 16 ELSE 0

get_afrc_modifier_tags(h) ==
    IF ~is_format_afrc(h.alloc_format) THEN ZeroModifier
    ELSE IF ~afrc_entry_found(h.alloc_format.id) THEN ZeroModifier
    ELSE LET ext == h.alloc_format.ext
             yuv == /\ h.alloc_format.id \in TableIds
                    /\ table_find(h.alloc_format.id).colormodel = "yuv"
         IN  IF yuv /\ hnd_is_multi_plane(h)
             THEN Modifier("ARM_AFRC", afrc_layout_tags(ext), "NONE",
                           afrc_cu_size(ext.cu_luma), afrc_cu_size(ext.cu_chroma))
             ELSE Modifier("ARM_AFRC", afrc_layout_tags(ext), "NONE",
                           afrc_cu_size(ext.cu_luma), 0)

\* AFBC_FORMAT_MOD_DB follows the DOUBLE_BODY bit of the format.
afbc_db_tags(ext) == IF ext.dbody THEN {"DB"} ELSE {}

\* The single-bit modifier tags of an AFBC format.
afbc_flag_tags(ext) ==
    (IF ext.split THEN {"SPLIT"} ELSE {})
    \cup (IF ext.tiled THEN {"TILED"} ELSE {})
    \cup afbc_db_tags(ext)
    \cup (IF ext.bch THEN {"BCH"} ELSE {})
    \cup (IF ext.ytr THEN {"YTR"} ELSE {})
    \cup (IF ext.sparse THEN {"SPARSE"} ELSE {})
    \cup (IF ext.usm THEN {"USM"} ELSE {})

\* The block-size modifier.
afbc_block_size(ext, multi_plane) ==
    IF ext.wide THEN (IF multi_plane THEN "32x8_64x4" ELSE "32x8")
    ELSE IF ext.extrawide THEN "64x4"
    ELSE "16x16"

get_afbc_modifier_tags(h) ==
    IF ~is_format_afbc(h.alloc_format) THEN ZeroModifier
    ELSE Modifier("ARM_AFBC", afbc_flag_tags(h.alloc_format.ext),
                  afbc_block_size(h.alloc_format.ext, hnd_is_multi_plane(h)), 0, 0)

\* A mutation: the component ordering of block-compressed RGB565 is ignored.
rgb565_afbc_reordered_M(fmt) == FALSE

\* "afbc && internal_format == MALI_GRALLOC_FORMAT_INTERNAL_RGB_565".
rgb565_afbc_reordered(fmt) == is_format_afbc(fmt) /\ fmt.id = "RGB_565"

drm_fourcc_from_handle(h) ==
    IF h.alloc_format.id \notin TableIds THEN "INVALID"
    ELSE IF rgb565_afbc_reordered(h.alloc_format) THEN "BGR565"
    ELSE table_find(h.alloc_format.id).fourcc

drm_modifier_from_handle(h) ==
    IF is_format_afbc(h.alloc_format) THEN get_afbc_modifier_tags(h)
    ELSE IF is_format_afrc(h.alloc_format) THEN get_afrc_modifier_tags(h)
    ELSE IF is_format_block_linear(h.alloc_format)
         THEN Modifier("GENERIC_16_16_TILE", {}, "NONE", 0, 0)
    ELSE ZeroModifier

(***************************************************************************)
(* Specification SpecDrm: a buffer is allocated from a request, or a       *)
(* handle is imported from another process, and its modifier is derived.   *)
(***************************************************************************)
DrmAfbcExts ==
    { [NoExt EXCEPT !.afbc = TRUE, !.wide = w, !.extrawide = x, !.tiled = t,
                    !.dbody = b, !.split = sp,
                    !.bch = m, !.ytr = m, !.sparse = m, !.usm = m] :
        w \in BOOLEAN, x \in BOOLEAN, t \in BOOLEAN, b \in BOOLEAN,
        sp \in BOOLEAN, m \in BOOLEAN }

DrmAfrcExts ==
    { [NoExt EXCEPT !.afrc = TRUE, !.rot = r, !.cu_luma = l, !.cu_chroma = c] :
        r \in BOOLEAN, l \in 0 .. 3, c \in 0 .. 3 }

DrmExts == {NoExt, BlockLinearExt} \cup DrmAfbcExts \cup DrmAfrcExts

HandleFormats == { [id |-> i, ext |-> e] : i \in FormatIds \cup {"UNKNOWN"}, e \in DrmExts }

DrmUsages == { Usage(FALSE, TRUE, FALSE), Usage(TRUE, TRUE, FALSE) }

DrmRequests ==
    { Descriptor(64 * MaxTiles, 64, f, u, 1) : f \in HandleFormats, u \in DrmUsages }

\* The descriptor of a process that allocates nothing and imports handles.
IdleDescriptor == Descriptor(1, 1, UNDEFINED, Usage(FALSE, FALSE, FALSE), 1)

ImportedPlaneInfos ==
    { ZeroPlaneInfo,
      [ZeroPlaneInfo EXCEPT ![0] = PlaneInfo(0, 64, 64, 64),
                            ![1] = PlaneInfo(4096, 64, 32, 32)] }

InitDrm ==
    /\ desc \in DrmRequests \cup {IdleDescriptor}
    /\ res = NoResult
    /\ before = [out |-> Outputs(desc), ret |-> "NONE"]
    /\ hnd = NoHandle
    /\ drm = NoDrm
    /\ caps = CapsInit
    /\ ids = IdsInit
    /\ alloc = AllocIdle

\* allocator_allocate: builds the handle from the descriptor, or fails.
allocator_allocate(d, provider_ok) ==
    IF provider_ok THEN Handle(d.alloc_format, d.plane_info, "allocated") ELSE NoHandle

\* From the outcome r of mali_gralloc_derive_format_and_size on.
buffer_allocate_derived(r, provider_ok) ==
    IF r.ret # "OK" THEN r @@ [hnd |-> NoHandle]
    ELSE IF ~provider_ok
    THEN [r EXCEPT !.ret = "ALLOC_FAILED", !.stage = "allocator_allocate"] @@ [hnd |-> NoHandle]
    ELSE r @@ [hnd |-> allocator_allocate(r.d, provider_ok)]

\* mali_gralloc_buffer_allocate: derive the layout, then allocator_allocate.
mali_gralloc_buffer_allocate(d, provider_ok) ==
    buffer_allocate_derived(mali_gralloc_derive_format_and_size(d), provider_ok)

\* The handle, when there is one, gets its backing_store_id from getUniqueId.
Allocated(a) ==
    /\ Returned(a)
    /\ IF a.hnd = NoHandle
       THEN hnd' = a.hnd /\ ids' = ids
       ELSE /\ hnd' = [a.hnd EXCEPT !.backing_store_id = UniqueId(ProcessId, ids.counter)]
            /\ ids' = [ids EXCEPT !.counter = counter_next(@),
                                  !.issued = Append(@, UniqueId(ProcessId, ids.counter))]

BufferAllocate ==
    /\ res.ret = "NONE"
    /\ desc # IdleDescriptor
    /\ \E provider_ok \in BOOLEAN :
         Allocated(mali_gralloc_buffer_allocate(desc, provider_ok))
    /\ UNCHANGED <<drm, caps, alloc>>

\* A handle that was allocated elsewhere reaches this process.
ImportHandle ==
    /\ desc = IdleDescriptor
    /\ hnd = NoHandle
    /\ \E f \in HandleFormats, pi \in ImportedPlaneInfos :
         hnd' = Handle(f, pi, "imported")
    /\ UNCHANGED <<desc, res, before, drm, caps, ids, alloc>>

\* drm_fourcc_from_handle and drm_modifier_from_handle on the handle.
WireDescriptor ==
    /\ hnd # NoHandle
    /\ drm = NoDrm
    /\ drm' = [state |-> "done", modifier |-> drm_modifier_from_handle(hnd),
               fourcc |-> drm_fourcc_from_handle(hnd)]
    /\ UNCHANGED <<desc, res, before, hnd, caps, ids, alloc>>

NextDrm == BufferAllocate \/ ImportHandle \/ WireDescriptor

SpecDrm == InitDrm /\ [][NextDrm]_vars

(***************************************************************************)
(* Properties of the wire descriptor mapper (specification SpecDrm).       *)
(***************************************************************************)
Wired == drm.state = "done"

\* The modifier of a buffer this process allocated: res.at is the decision
\* get_alloc_type produced for it.
WiredAllocation == Wired /\ hnd.origin = "allocated" /\ res.ret = "OK"

\* The superblock class a block-size modifier stands for.
BlockSizeClass(block_size) ==
    IF block_size \in {"32x8", "32x8_64x4"} THEN "AFBC_WIDEBLK"
    ELSE IF block_size = "64x4" THEN "AFBC_EXTRAWIDEBLK"
    ELSE IF block_size = "16x16" THEN "AFBC"
    ELSE "NONE"

\* The fields of the decision that the block size, tiled and split bits and
\* the coding-unit sizes of the modifier encode are recovered from it.
RoundTripExceptDB ==
    /\ is_afbc(res.at)
       => /\ drm.modifier.kind = "ARM_AFBC"
          /\ BlockSizeClass(drm.modifier.block_size) = res.at.primary_type
          /\ (drm.modifier.block_size = "32x8_64x4") =
                (res.at.primary_type = "AFBC_WIDEBLK" /\ res.at.is_multi_plane)
          /\ ("TILED" \in drm.modifier.tags) = res.at.is_tiled
          /\ ("SPLIT" \in drm.modifier.tags) = desc.alloc_format.ext.split
    /\ is_afrc(res.at)
       => /\ drm.modifier.kind = "ARM_AFRC"
          /\ drm.modifier.cu_p0 = res.at.afrc.rgba_luma_coding_unit_bytes
          /\ hnd_is_multi_plane(hnd)
             => drm.modifier.cu_p12 = res.at.afrc.chroma_coding_unit_bytes

\* C7 as claimed: for every decision get_alloc_type produces, the fields
\* re-derived from the modifier (block size class, tiled-headers bit, split
\* bit, double-buffer bit; coding-unit sizes) equal those of the decision; the
\* double-buffer bit is set exactly when is_frontbuffer_safe is true.
C7_ModifierRoundTrip ==
    WiredAllocation
    => /\ RoundTripExceptDB
       /\ is_afbc(res.at) => (("DB" \in drm.modifier.tags) = res.at.is_frontbuffer_safe)

\* C8: for a fixed-rate-compressed format whose id is in the format-code
\* table, the modifier has the scan-layout bit set if and only if the
\* rotated-layout flag of the internal format is not set.
C8_ScanLayoutIffNotRotated ==
    (Wired /\ is_format_afrc(hnd.alloc_format) /\ ~is_format_afbc(hnd.alloc_format)
           /\ hnd.alloc_format.id \in TableIds)
    => /\ drm.modifier.kind = "ARM_AFRC"
       /\ ("LAYOUT_SCAN" \in drm.modifier.tags) <=> ~hnd.alloc_format.ext.rot

C8_Witness ==
    /\ WiredAllocation /\ is_afrc(res.at) /\ hnd.alloc_format.id = "NV12"
    /\ hnd.alloc_format.ext.rot /\ res.at.afrc.paging_tile_width = 8
    /\ "LAYOUT_SCAN" \notin drm.modifier.tags

\* An encoding that needs a modifier is active on the format of the handle.
EncodingActive ==
    \/ is_format_afbc(hnd.alloc_format)
    \/ is_format_afrc(hnd.alloc_format)
    \/ is_format_block_linear(hnd.alloc_format)

\* C10 as claimed: the modifier is zero for every uncompressed format and for
\* every format id that is not in the format-code table, whatever encoding
\* flags are set; it is non-zero only for an id in the table with an encoding
\* active.
C10_ZeroUnlessRecognizedAndActive ==
    Wired
    => /\ ~EncodingActive => drm.modifier = ZeroModifier
       /\ hnd.alloc_format.id \notin TableIds => drm.modifier = ZeroModifier
       /\ drm.modifier # ZeroModifier
          => (hnd.alloc_format.id \in TableIds /\ EncodingActive)

\* C10 amended: the modifier is zero for every uncompressed format, and for a
\* fixed-rate-compressed format whose id is not in the table; it is non-zero
\* for every block-compressed and every tile-linear format, whether or not
\* the id is in the table, and for a fixed-rate-compressed format whose id is
\* in the table.
C10_ZeroIffNoModifierEncoding ==
    Wired
    => (drm.modifier = ZeroModifier
        <=> \/ ~EncodingActive
            \/ /\ is_format_afrc(hnd.alloc_format)
               /\ ~is_format_afbc(hnd.alloc_format)
               /\ hnd.alloc_format.id \notin TableIds)

C10_Witness ==
    /\ Wired /\ hnd.origin = "imported" /\ hnd.alloc_format.id \notin TableIds
    /\ is_format_afbc(hnd.alloc_format) /\ drm.modifier.kind = "ARM_AFBC"

\* C11: for an id in the format-code table the format code is the table's
\* code whatever the encoding flags, except that RGB_565 with block
\* compression active gives BGR565; for an id that is not in the table the
\* code is DRM_FORMAT_INVALID, also when block compression is active.
C11_FourccFromTable ==
    Wired
    => /\ hnd.alloc_format.id \notin TableIds => drm.fourcc = "INVALID"
       /\ hnd.alloc_format.id \in TableIds
          => \E e \in table :
               /\ e.id = hnd.alloc_format.id
               /\ IF e.id = "RGB_565" /\ hnd.alloc_format.ext.afbc
                  THEN drm.fourcc = "BGR565" /\ drm.fourcc # e.fourcc
                  ELSE drm.fourcc = e.fourcc

C11_Witness ==
    /\ Wired /\ hnd.alloc_format.id = "RGB_565" /\ hnd.alloc_format.ext.afbc
    /\ hnd.origin = "allocated" /\ drm.fourcc = "BGR565"

(***************************************************************************)
(* Specification SpecCaps: threads call get_ip_capabilities and            *)
(* mali_gralloc_get_caps concurrently (capabilities.cpp).                  *)
(***************************************************************************)
\* The state of the layout engine of a process that allocates nothing.
LayoutIdle ==
    /\ desc = IdleDescriptor
    /\ res = NoResult
    /\ before = [out |-> Outputs(desc), ret |-> "NONE"]
    /\ hnd = NoHandle
    /\ drm = NoDrm

InitCaps == LayoutIdle /\ caps = CapsInit /\ ids = IdsInit /\ alloc = AllocIdle

CapsKinds == {"get_ip_capabilities", "mali_gralloc_get_caps"}

\* A thread enters get_ip_capabilities, directly or from mali_gralloc_get_caps.
CapsCall(t) ==
    /\ caps.pc[t] = "idle"
    /\ caps.calls[t] < MaxCapsCalls
    /\ \E k \in CapsKinds :
         caps' = [caps EXCEPT !.pc[t] = "lock", !.kind[t] = k]
    /\ UNCHANGED <<desc, res, before, hnd, drm, ids, alloc>>

\* pthread_mutex_lock(&caps_init_mutex): blocks while the mutex is held.
CapsLock(t) ==
    /\ caps.pc[t] = "lock"
    /\ caps.mutex = 0
    /\ caps' = [caps EXCEPT !.mutex = t, !.pc[t] = "check"]
    /\ UNCHANGED <<desc, res, before, hnd, drm, ids, alloc>>

\* A mutation: the flag is not consulted and every call initializes.
caps_already_init_M(c) == FALSE

\* "if (runtime_caps_read) goto already_init".
caps_already_init(c) == c.runtime_caps_read

CapsCheck(t) ==
    /\ caps.pc[t] = "check"
    /\ caps' = [caps EXCEPT !.pc[t] = IF caps_already_init(caps) THEN "unlock" ELSE "clear"]
    /\ UNCHANGED <<desc, res, before, hnd, drm, ids, alloc>>

\* sanitize_formats() and the memsets of the six tables.
CapsClear(t) ==
    /\ caps.pc[t] = "clear"
    /\ caps' = [caps EXCEPT !.tables = "zero", !.pc[t] = "probe",
                            !.inits = @ + 1,
                            !.late_write = @ \/ caps.returned]
    /\ UNCHANGED <<desc, res, before, hnd, drm, ids, alloc>>

\* The CPU capabilities and get_block_capabilities for each IP: a library
\* that cannot be opened leaves its table zeroed.
CapsProbe(t) ==
    /\ caps.pc[t] = "probe"
    /\ \E loaded \in {"cpu", "cpu+blocks"} :
         caps' = [caps EXCEPT !.tables = loaded, !.pc[t] = "set_read",
                                 !.late_write = @ \/ caps.returned]
    /\ UNCHANGED <<desc, res, before, hnd, drm, ids, alloc>>

\* runtime_caps_read = true.
CapsSetRead(t) ==
    /\ caps.pc[t] = "set_read"
    /\ caps' = [caps EXCEPT !.runtime_caps_read = TRUE, !.pc[t] = "unlock"]
    /\ UNCHANGED <<desc, res, before, hnd, drm, ids, alloc>>

\* pthread_mutex_unlock(&caps_init_mutex).
CapsUnlock(t) ==
    /\ caps.pc[t] = "unlock"
    /\ caps' = [caps EXCEPT !.mutex = IF @ = t THEN 0 ELSE @, !.pc[t] = "log"]
    /\ UNCHANGED <<desc, res, before, hnd, drm, ids, alloc>>

\* The log lines, the memcpy of the tables out of mali_gralloc_get_caps, and
\* the return.
CapsReturn(t) ==
    /\ caps.pc[t] = "log"
    /\ caps' = [caps EXCEPT !.pc[t] = "idle", !.calls[t] = @ + 1,
                            !.copy[t] = IF caps.kind[t] = "mali_gralloc_get_caps"
                                        THEN caps.tables ELSE @,
                            !.returned = TRUE]
    /\ UNCHANGED <<desc, res, before, hnd, drm, ids, alloc>>

NextCaps ==
    \E t \in Threads :
        \/ CapsCall(t) \/ CapsLock(t) \/ CapsCheck(t) \/ CapsClear(t)
        \/ CapsProbe(t) \/ CapsSetRead(t) \/ CapsUnlock(t) \/ CapsReturn(t)

SpecCaps == InitCaps /\ [][NextCaps]_vars

\* C12: under any interleaving of calls of get_ip_capabilities and
\* mali_gralloc_get_caps, at most one call initializes the capability
\* tables, and exactly one has once a call has returned; after a call has
\* returned no call writes the tables or resets runtime_caps_read; a thread
\* that has returned does not hold caps_init_mutex.
C12_InitializedOnce ==
    /\ caps.inits <= 1
    /\ caps.returned => (caps.inits = 1 /\ caps.runtime_caps_read)
    /\ ~caps.late_write
    /\ \A t \in Threads :
         /\ caps.pc[t] \in {"idle", "lock", "log"} => caps.mutex # t
         /\ caps.copy[t] # "none" => caps.copy[t] = caps.tables

C12_Witness ==
    /\ \A t \in Threads : caps.calls[t] = MaxCapsCalls
    /\ caps.inits = 1 /\ caps.mutex = 0
    /\ \E t \in Threads : caps.copy[t] = "cpu+blocks"

(***************************************************************************)
(* Specification SpecIds: threads that allocate buffers call getUniqueId   *)
(* concurrently (buffer_allocation.cpp).                                   *)
(***************************************************************************)
InitIds == LayoutIdle /\ caps = CapsInit /\ ids = IdsInit /\ alloc = AllocIdle

\* The calls begun so far: those that returned and those in flight.
IdsBegun == Len(ids.issued) + Cardinality({ t \in Threads : ids.pc[t] # "idle" })

\* "uint64_t id = static_cast<uint64_t>(getpid()) << 32".
IdsEnter(t) ==
    /\ ids.pc[t] = "idle"
    /\ IdsBegun < MaxIds
    /\ ids' = [ids EXCEPT !.pc[t] = "fetch", !.hi[t] = ProcessId]
    /\ UNCHANGED <<desc, res, before, hnd, drm, caps, alloc>>

\* "counter++": one atomic read-modify-write.
IdsFetch(t) ==
    /\ ids.pc[t] = "fetch"
    /\ ids' = [ids EXCEPT !.pc[t] = "return", !.lo[t] = ids.counter,
                          !.counter = counter_next(@)]
    /\ UNCHANGED <<desc, res, before, hnd, drm, caps, alloc>>

\* "return id | counter++": the id becomes a buffer's backing_store_id.
IdsReturn(t) ==
    /\ ids.pc[t] = "return"
    /\ ids' = [ids EXCEPT !.pc[t] = "idle",
                          !.issued = Append(@, UniqueId(ids.hi[t], ids.lo[t]))]
    /\ UNCHANGED <<desc, res, before, hnd, drm, caps, alloc>>

NextIds == \E t \in Threads : IdsEnter(t) \/ IdsFetch(t) \/ IdsReturn(t)

SpecIds == InitIds /\ [][NextIds]_vars

\* C13 as claimed: any two calls of getUniqueId in the process return
\* different values, however many calls lie between them, so no two buffers
\* share a backing_store_id.
C13_UniqueIds ==
    \A i, j \in 1 .. Len(ids.issued) : i # j => ids.issued[i] # ids.issued[j]

(***************************************************************************)
(* Further properties of the layout engine (specification Spec).           *)
(***************************************************************************)
\* x rounded up to a multiple of a.
RoundUp(x, a) == ((x + a - 1) \div a) * a

\* A layout of a single-plane block-compressed buffer was computed.
C14_Case == res.ret = "OK" /\ is_afbc(res.at) /\ NPln = 1

\* The superblock count of plane 0: aligned width x aligned height / 256.
C14_SbCount ==
    (res.calc.plane_info[0].alloc_width * res.calc.plane_info[0].alloc_height) \div 256

\* Bytes of one superblock: align((bpp_afbc x sb_w x sb_h) / 8, 128), where
\* sb_w x sb_h is 16x16, 32x8 or 64x4.
C14_SbBytes ==
    LET sb_pixels == IF res.at.primary_type = "AFBC" THEN 16 * 16
                     ELSE IF res.at.primary_type = "AFBC_WIDEBLK" THEN 32 * 8
                     ELSE 64 * 4
    IN  RoundUp((SelFormat.bpp_afbc[0] * sb_pixels) \div 8, 128)

C14_HeaderAsStated ==
    res.calc.header[0] = RoundUp(C14_SbCount * 16, IF res.at.is_tiled THEN 4096 ELSE 1024)

\* The 64x64 scenario: basic 16x16 superblocks, tiled headers off.
C14_Scenario ==
    (desc.width = 64 /\ desc.height = 64 /\ res.at.primary_type = "AFBC" /\ ~res.at.is_tiled)
    => (C14_SbCount = 16 /\ res.calc.header[0] = 1024)

\* C14 as claimed: for a single-plane block-compressed plane the header is
\* (aligned width x aligned height / 256) x 16 rounded up to 1024 (4096 with
\* tiled headers), the body is the superblock count times the aligned
\* superblock bytes, and the total is header + body.
C14_HeaderBodyTotal ==
    C14_Case
    => /\ C14_HeaderAsStated
       /\ res.calc.body[0] = C14_SbCount * C14_SbBytes
       /\ res.calc.size = res.calc.header[0] + res.calc.body[0]
       /\ C14_Scenario

\* C14 amended: as claimed, except that when tiled headers and double body
\* are both set (the decision is frontbuffer-safe) the body is the stated
\* size plus the same size rounded up to the body-buffer alignment.
C14_HeaderBodyTotalDoubled ==
    C14_Case
    => /\ C14_HeaderAsStated
       /\ res.calc.body[0] =
            IF res.at.is_frontbuffer_safe
            THEN C14_SbCount * C14_SbBytes + RoundUp(C14_SbCount * C14_SbBytes, 4096)
            ELSE C14_SbCount * C14_SbBytes
       /\ res.calc.size = res.calc.header[0] + res.calc.body[0]
       /\ C14_Scenario

C14_Witness ==
    /\ C14_Case /\ desc.width = 64 /\ desc.height = 64 /\ desc.alloc_format.id = "RGBA_8888"
    /\ res.at.primary_type = "AFBC" /\ ~res.at.is_tiled
    /\ res.calc.header[0] = 1024 /\ res.calc.body[0] = 16384 /\ res.calc.size = 17408

\* The alignment of a layer: 4096 for block compression with tiled headers,
\* 128 for block compression without, none otherwise.
C15_LayerAlignment ==
    IF desc.alloc_format.ext.afbc
    THEN (IF desc.alloc_format.ext.tiled THEN 4096 ELSE 128)
    ELSE 1

\* C15: with more than one layer the size is layer_count x A, where A is the
\* single-layer size rounded up to the layer alignment, so every layer starts
\* at a multiple of the alignment; with one layer the size is the
\* single-layer size, not rounded.
C15_LayeredSize ==
    res.ret = "OK"
    => IF desc.layer_count > 1
       THEN /\ desc.size = desc.layer_count * RoundUp(res.calc.size, C15_LayerAlignment)
            /\ \A k \in 0 .. (desc.layer_count - 1) :
                 (k * (desc.size \div desc.layer_count)) % C15_LayerAlignment = 0
       ELSE desc.size = res.calc.size

C15_Witness ==
    /\ res.ret = "OK" /\ desc.layer_count > 1 /\ desc.alloc_format.ext.afbc
    /\ desc.alloc_format.ext.tiled
    /\ res.calc.size % 4096 # 0
    /\ desc.size = desc.layer_count * RoundUp(res.calc.size, 4096)

\* get_alloc_type returned false in the call.
GetAllocTypeFailed == res.stage = "get_alloc_type" /\ res.ret = "EINVAL"

\* C16: for a block-compressed request get_alloc_type fails exactly when
\* extra-wide is set without tiled headers, or the format has one plane and
\* both wide and extra-wide are set; every other flag combination, double
\* body with wide or extra-wide blocks included, succeeds.
C16_AfbcFailsExactly ==
    (Called /\ Known /\ desc.alloc_format.ext.afbc)
    => (GetAllocTypeFailed
        <=> \/ desc.alloc_format.ext.extrawide /\ ~desc.alloc_format.ext.tiled
            \/ /\ SelFormat.npln = 1
               /\ desc.alloc_format.ext.wide /\ desc.alloc_format.ext.extrawide)

C16_Witness ==
    /\ Called /\ Known /\ ~GetAllocTypeFailed
    /\ desc.alloc_format.ext.dbody /\ desc.alloc_format.ext.wide
    /\ desc.alloc_format.ext.extrawide /\ desc.alloc_format.ext.tiled
    /\ res.at.is_frontbuffer_safe /\ res.at.primary_type = "AFBC_WIDEBLK"
    /\ res.ret = "OK"

\* A fixed-rate-compressed request reached get_alloc_type.
C17_Case == Called /\ Known /\ desc.alloc_format.ext.afrc /\ ~desc.alloc_format.ext.afbc

\* The coding-unit fields that name a size (16, 24, 32).
C17_ValidFields == {1, 2, 3}

\* The plane alignment stated for a coding-unit size.
C17_Alignment(bytes) ==
    CASE bytes = 16 -> 1024 [] bytes = 24 -> 512 [] bytes = 32 -> 2048 [] OTHER -> 0

\* C17: for a fixed-rate-compressed request get_alloc_type succeeds only if
\* the luma/RGBA and the chroma coding-unit fields both decode to 16, 24 or
\* 32, with plane alignments 1024, 512 and 2048; if either field decodes to
\* another value it returns false, also for a single-plane format.
C17_AfrcCodingUnits ==
    C17_Case
    => /\ (desc.alloc_format.ext.cu_luma \notin C17_ValidFields
           \/ desc.alloc_format.ext.cu_chroma \notin C17_ValidFields)
          => GetAllocTypeFailed
       /\ ~GetAllocTypeFailed
          => /\ res.at.afrc.rgba_luma_coding_unit_bytes \in {16, 24, 32}
             /\ res.at.afrc.chroma_coding_unit_bytes \in {16, 24, 32}
             /\ res.at.afrc.rgba_luma_plane_alignment =
                  C17_Alignment(res.at.afrc.rgba_luma_coding_unit_bytes)
             /\ res.at.afrc.chroma_plane_alignment =
                  C17_Alignment(res.at.afrc.chroma_coding_unit_bytes)
             /\ res.at.afrc.rgba_luma_coding_unit_bytes = 8 * (desc.alloc_format.ext.cu_luma + 1)
             /\ res.at.afrc.chroma_coding_unit_bytes = 8 * (desc.alloc_format.ext.cu_chroma + 1)

C17_Witness ==
    /\ C17_Case /\ SelFormat.npln = 1 /\ SelFormat.afrc
    /\ desc.alloc_format.ext.cu_luma = 1 /\ desc.alloc_format.ext.cu_chroma = 0
    /\ GetAllocTypeFailed

\* The capability flag of the selected format for the encoding family that
\* get_alloc_type selected in the call.
C18_FamilyFlag ==
    CASE res.at.primary_type \in {"AFBC", "AFBC_WIDEBLK", "AFBC_EXTRAWIDEBLK"} -> SelFormat.afbc
      [] res.at.primary_type = "AFRC" -> SelFormat.afrc
      [] res.at.primary_type = "BLOCK_LINEAR" -> SelFormat.block_linear
      [] OTHER -> SelFormat.linear

\* C18: when the format's capability flag for the selected encoding family
\* is false, validate_format rejects the request and the call returns an
\* error before any layout is computed; a layout is computed only for a
\* format that supports the selected family.
C18_UnsupportedFamilyRejected ==
    (Called /\ Known /\ ~GetAllocTypeFailed)
    => /\ ~C18_FamilyFlag
          => /\ res.stage = "validate_format" /\ res.ret = "EINVAL"
             /\ res.calc = NoCalc
             /\ desc.size = before.out.size /\ desc.plane_info = before.out.plane_info
       /\ (res.stage = "done" \/ res.calc # NoCalc) => C18_FamilyFlag

C18_Witness ==
    /\ Called /\ desc.alloc_format = [id |-> "YUV420_8BIT_I", ext |-> NoExt]
    /\ ~SelFormat.linear /\ res.at.primary_type = "UNCOMPRESSED"
    /\ res.stage = "validate_format" /\ res.ret = "EINVAL"

\* The unit [w, h] of the encoding of the layout for plane p: the superblock
\* (16 rows for wide blocks without tiled headers), the paging tile times the
\* clump, or the 16x16 tile; 1x1 for an uncompressed plane.
C19_Unit(p) ==
    IF is_afbc(res.at)
    THEN (IF res.at.primary_type = "AFBC" THEN [w |-> 16, h |-> 16]
          ELSE IF res.at.primary_type = "AFBC_WIDEBLK"
          THEN (IF p > 0 /\ res.at.is_multi_plane THEN [w |-> 64, h |-> 4]
                ELSE IF ~res.at.is_tiled THEN [w |-> 32, h |-> 16]
                ELSE [w |-> 32, h |-> 8])
          ELSE [w |-> 64, h |-> 4])
    ELSE IF is_afrc(res.at)
    THEN [w |-> res.at.afrc.paging_tile_width * res.at.afrc.clump_width[p],
          h |-> res.at.afrc.paging_tile_height * res.at.afrc.clump_height[p]]
    ELSE IF is_block_linear(res.at) THEN [w |-> 16, h |-> 16]
    ELSE [w |-> 1, h |-> 1]

\* The planes of the layout are whole numbers of encoding units.
C19_UnitMultiples ==
    \A p \in 0 .. (NPln - 1) :
        /\ res.calc.plane_info[p].alloc_width % C19_Unit(p).w = 0
        /\ res.calc.plane_info[p].alloc_height % C19_Unit(p).h = 0
        /\ is_afbc(res.at)
           => (res.calc.plane_info[p].alloc_width * res.calc.plane_info[p].alloc_height) % 256 = 0

\* C19 as claimed: for every plane and every combination of usage flags, CPU
\* usage included, the allocation width and height are multiples of the
\* encoding's unit, so the divisions of calc_allocation_size are exact.
C19_DimensionsAreUnitMultiples == res.ret = "OK" => C19_UnitMultiples

\* A layout of an uncompressed buffer was computed.
C20_Case == res.ret = "OK" /\ res.at.primary_type = "UNCOMPRESSED"

\* aligned_width x bpp / 8 of plane p.
C20_RawStride(p) == (res.calc.plane_info[p].alloc_width * SelFormat.bpp[p]) \div 8

\* The alignment terms of plane p; 0 when the usage is absent.
C20_HwAlign == IF desc.usage.hw THEN (IF SelFormat.is_yuv THEN 128 ELSE 64) ELSE 0

C20_CpuAlign(p) ==
    IF desc.usage.cpu THEN (SelFormat.bpp[p] * SelFormat.align_w_cpu) \div 8 ELSE 0

\* n is a multiple of k times every alignment term of plane p that is present.
C20_CommonMultiple(n, p, k) ==
    /\ C20_HwAlign # 0 => n % (k * C20_HwAlign) = 0
    /\ C20_CpuAlign(p) # 0 => n % (k * C20_CpuAlign(p)) = 0

\* n is the smallest multiple of k x lcm(hw_align, cpu_align) that is >= low;
\* n = low when neither usage is present.
C20_Least(n, low, p, k) ==
    /\ n >= low
    /\ C20_CommonMultiple(n, p, k)
    /\ \A m \in low .. (n - 1) : ~C20_CommonMultiple(m, p, k)

\* C20 as claimed: for every uncompressed plane of every format, tile sizes
\* greater than 1 included, the byte stride is the smallest multiple of
\* lcm(hw_align, cpu_align) that is >= aligned_width x bpp / 8, and exactly
\* that value when neither usage is present.
C20_StrideLeastMultiple ==
    C20_Case
    => \A p \in 0 .. (NPln - 1) :
         C20_Least(res.calc.plane_info[p].byte_stride, C20_RawStride(p), p, 1)

\* YV12 with CPU and hardware usage: the case of update_yv12_stride.
C20_Yv12Case == desc.alloc_format.id = "YV12" /\ desc.usage.hw /\ desc.usage.cpu

\* C20 amended: the claim holds for a format of tile size 1 other than YV12
\* with both usages.  For a tile size greater than 1 it is the stride times
\* the tile size that is the smallest multiple of lcm(hw_align, cpu_align)
\* >= aligned_width x bpp / 8 times the tile size.  For YV12 with CPU and
\* hardware usage the luma stride is the smallest multiple of twice the lcm
\* >= aligned_width x bpp / 8 and each chroma stride is half the luma stride.
C20_StrideLeastMultipleOfTileRow ==
    C20_Case
    => \A p \in 0 .. (NPln - 1) :
         IF C20_Yv12Case
         THEN IF p = 0
              THEN C20_Least(res.calc.plane_info[0].byte_stride, C20_RawStride(0), 0, 2)
              ELSE 2 * res.calc.plane_info[p].byte_stride = res.calc.plane_info[0].byte_stride
         ELSE C20_Least(res.calc.plane_info[p].byte_stride * SelFormat.tile_size,
                        C20_RawStride(p) * SelFormat.tile_size, p, 1)

C20_Witness ==
    /\ C20_Case /\ desc.alloc_format.id = "Y0L2" /\ SelFormat.tile_size = 2
    /\ desc.usage.hw /\ ~desc.usage.cpu
    /\ res.calc.plane_info[0].byte_stride % C20_HwAlign # 0
    /\ (2 * res.calc.plane_info[0].byte_stride) % C20_HwAlign = 0

\* A YV12 layout with CPU and hardware usage was computed.
C21_Case == C20_Case /\ C20_Yv12Case

\* C21: for YV12 with both CPU and hardware usage the luma byte stride is a
\* multiple of 2 x lcm(hw_align, cpu_align), each chroma byte stride is exactly
\* half the luma byte stride, and the two conditions asserted by
\* update_yv12_stride hold of each chroma stride: it is aligned to
\* lcm(hw_align, cpu_align) and it is a multiple of 16.
C21_Yv12Strides ==
    C21_Case
    => /\ res.calc.plane_info[0].byte_stride
            % (2 * lcm(C20_HwAlign, C20_CpuAlign(0))) = 0
       /\ \A p \in 1 .. (NPln - 1) :
            /\ 2 * res.calc.plane_info[p].byte_stride = res.calc.plane_info[0].byte_stride
            /\ res.calc.plane_info[p].byte_stride
                 = GRALLOC_ALIGN(res.calc.plane_info[p].byte_stride,
                                 lcm(C20_HwAlign, C20_CpuAlign(p)))
            /\ res.calc.plane_info[p].byte_stride % 16 = 0

\* The doubling was needed: the stride before update_yv12_stride was an odd
\* multiple of the combined alignment.
C21_Witness ==
    /\ C21_Case /\ NPln = 3
    /\ GRALLOC_ALIGN(C20_RawStride(0), lcm(C20_HwAlign, C20_CpuAlign(0))) = 128
    /\ res.calc.plane_info[0].byte_stride = 256
    /\ res.calc.plane_info[1].byte_stride = 128
    /\ res.calc.plane_info[2].byte_stride = 128

\* The layout is one the CPU can address: uncompressed, with CPU usage.
C22_CpuAccessible == res.at.primary_type = "UNCOMPRESSED" /\ desc.usage.cpu

\* C22: after a layout was computed the pixel stride is 0 when the buffer is
\* block-compressed, fixed-rate-compressed or tile-linear or CPU usage was not
\* requested; otherwise it is plane 0's byte stride x 8 / bpp of plane 0, and
\* the division leaves no remainder.
C22_PixelStride ==
    res.ret = "OK"
    => IF C22_CpuAccessible
       THEN /\ (res.calc.plane_info[0].byte_stride * 8) % SelFormat.bpp[0] = 0
            /\ desc.pixel_stride * SelFormat.bpp[0] = res.calc.plane_info[0].byte_stride * 8
            /\ res.calc.pixel_stride = desc.pixel_stride
       ELSE desc.pixel_stride = 0

\* A multi-plane format whose planes differ in byte stride, with CPU usage.
C22_Witness ==
    /\ res.ret = "OK" /\ C22_CpuAccessible /\ NPln > 1
    /\ res.calc.plane_info[1].byte_stride # res.calc.plane_info[0].byte_stride
    /\ desc.pixel_stride > 0

\* A block-compressed layout of a format with more than one plane.
C23_Case == res.ret = "OK" /\ is_afbc(res.at) /\ NPln > 1

\* Superblock count x per-superblock bytes of plane p.
C23_RawBody(p) ==
    ((res.calc.plane_info[p].alloc_width * res.calc.plane_info[p].alloc_height) \div 256)
    * RoundUp((SelFormat.bpp_afbc[p] * get_afbc_sb_size(res.at, p).width
                                     * get_afbc_sb_size(res.at, p).height) \div 8, 128)

C23_BodyAlignment == IF res.at.is_tiled THEN 4096 ELSE 1024

\* The body of a plane whose size before any doubling is b.
C23_Doubled(b) ==
    IF res.at.is_frontbuffer_safe THEN b + RoundUp(b, C23_BodyAlignment) ELSE b

\* C23: in a block-compressed layout of a format with more than one
\* plane, the body of a plane is re-aligned to the body-buffer alignment if and
\* only if the plane is not the last plane; the body of the last plane is
\* superblock count x per-superblock bytes before any doubling, for 2-plane
\* and 3-plane formats alike.
C23_RealignedIffNotLast ==
    C23_Case
    => \A p \in 0 .. (NPln - 1) :
         res.calc.body[p]
           = C23_Doubled(IF p # NPln - 1
                         THEN RoundUp(C23_RawBody(p), C23_BodyAlignment)
                         ELSE C23_RawBody(p))

\* A block-compressed layout was computed.
C24_Case == res.ret = "OK" /\ is_afbc(res.at)

\* C24: in every block-compressed layout the offset of each plane (the start
\* of its header) and the start of its body (offset + header size) are
\* multiples of the body-buffer alignment, 1024 bytes without tiled headers and
\* 4096 bytes with them, for every plane count and with or without
\* front-buffer double-buffering.
C24_HeadersAndBodiesAligned ==
    C24_Case
    => \A p \in 0 .. (NPln - 1) :
         /\ res.calc.plane_info[p].offset % C23_BodyAlignment = 0
         /\ (res.calc.plane_info[p].offset + res.calc.header[p]) % C23_BodyAlignment = 0

\* A three-plane, double-buffered layout whose planes follow one another.
C24_Witness ==
    /\ C24_Case /\ NPln = 3 /\ res.at.is_frontbuffer_safe
    /\ res.calc.plane_info[1].offset > 0
    /\ res.calc.plane_info[2].offset > res.calc.plane_info[1].offset
    /\ res.calc.header[2] > 0

\* A fixed-rate-compressed layout was computed.
C25_Case == res.ret = "OK" /\ is_afrc(res.at)

\* The alignment of plane p: from the luma/RGBA coding-unit size for plane 0,
\* from the chroma coding-unit size for later planes.
C25_PlaneAlignment(p) ==
    C17_Alignment(IF p = 0 THEN res.at.afrc.rgba_luma_coding_unit_bytes
                           ELSE res.at.afrc.chroma_coding_unit_bytes)

\* C25: in every fixed-rate-compressed layout the offset of each plane is a
\* multiple of the plane's coding-unit-dependent alignment (1024, 512 or 2048
\* bytes): for a later plane the offset is the end of the previous plane
\* rounded up to the alignment, so the padding belongs to no plane.
C25_AfrcOffsetsAligned ==
    C25_Case
    => \A p \in 0 .. (NPln - 1) :
         /\ C25_PlaneAlignment(p) \in {1024, 512, 2048}
         /\ res.calc.plane_info[p].offset % C25_PlaneAlignment(p) = 0
         /\ p > 0 => res.calc.plane_info[p].offset
                       = RoundUp(res.calc.plane_info[p - 1].offset + res.calc.body[p - 1],
                                 C25_PlaneAlignment(p))

\* A layout with padding between plane 0 and plane 1.
C25_Witness ==
    /\ C25_Case /\ NPln > 1
    /\ res.calc.plane_info[1].offset > res.calc.plane_info[0].offset + res.calc.body[0]

\* get_alloc_type returned success for a block-compressed request.
C26_Case ==
    /\ Called /\ Known /\ desc.alloc_format.ext.afbc
    /\ ~GetAllocTypeFailed /\ is_afbc(res.at)

\* The wide-block, untiled-headers branch of get_pixel_w_h (minimum height 16).
C26_WideUntiledBranch == res.at.primary_type = "AFBC_WIDEBLK" /\ ~res.at.is_tiled

\* C26: whenever get_alloc_type succeeds for a block-compressed request,
\* is_multi_plane implies is_tiled, more than one format plane and the
\* extra-wide flag; is_frontbuffer_safe implies is_tiled; and the wide-block
\* untiled branch of get_pixel_w_h is not taken for a multi-plane layout.
C26_MultiPlaneIsTiled ==
    C26_Case
    => /\ res.at.is_multi_plane
            => (res.at.is_tiled /\ SelFormat.npln > 1 /\ desc.alloc_format.ext.extrawide)
       /\ res.at.is_frontbuffer_safe => res.at.is_tiled
       /\ res.at.is_multi_plane => ~C26_WideUntiledBranch

\* A multi-plane, double-buffered layout of wide blocks was computed.
C26_Witness ==
    /\ C26_Case /\ res.ret = "OK"
    /\ res.at.is_multi_plane /\ res.at.is_frontbuffer_safe
    /\ res.at.primary_type = "AFBC_WIDEBLK"

(***************************************************************************)
(* IAllocator::allocate: GrallocAllocator::allocate (3.x/allocator.cpp)    *)
(* and common::allocate (hidl_common/allocator.cpp).                       *)
(***************************************************************************)
\* The descriptors the allocator is asked for: valid ones with and without a
\* pixel stride, and one whose format the layout engine rejects.
AllocRequests ==
    { Descriptor(17, 1, [id |-> i, ext |-> NoExt], u, 1) :
        i \in {"RGBA_8888", "YV12", "UNKNOWN"},
        u \in {Usage(TRUE, FALSE, FALSE), Usage(FALSE, TRUE, FALSE)} }

InitAlloc ==
    /\ desc \in AllocRequests
    /\ res = NoResult
    /\ before = [out |-> Outputs(desc), ret |-> "NONE"]
    /\ hnd = NoHandle
    /\ drm = NoDrm
    /\ caps = CapsInit
    /\ ids = IdsInit
    /\ alloc = AllocIdle

\* hidl_cb(error, stride, buffers).
hidl_cb(a, error, stride, buffers) ==
    [a EXCEPT !.called = Append(@, [error |-> error, stride |-> stride, buffers |-> buffers])]

\* mali_gralloc_buffer_free(hnd) on buffer b.
mali_gralloc_buffer_free(a, b) ==
    [a EXCEPT !.frees = Append(@, [buffer |-> b, after_cb |-> a.called # << >>])]

\* A mutation: the local buffer list is handed over whatever the error.
callback_buffers_M(error, grallocBuffers) == grallocBuffers

\* hidlBuffers: set to the local list only when error is NONE.
callback_buffers(error, grallocBuffers) ==
    IF error = "NONE" THEN grallocBuffers ELSE << >>

\* A mutation: the buffer is not freed when its shared memory fails.
shared_memory_failed_M(a, b) == [a EXCEPT !.error = "UNSUPPORTED", !.pc = "callback"]

\* gralloc_shared_memory_allocate failed for buffer b: free it and break.
shared_memory_failed(a, b) ==
    [mali_gralloc_buffer_free(a, b) EXCEPT !.error = "UNSUPPORTED", !.pc = "callback"]

\* "Stride must be the same for all allocations": free buffer b and break.
stride_mismatch(a, b) ==
    [mali_gralloc_buffer_free(a, b) EXCEPT !.stride = 0, !.error = "UNSUPPORTED",
                                           !.pc = "callback"]

\* grallocBuffers.emplace_back(hidl_handle(hnd)) and the next iteration.
emplace_back(a, b, stride) ==
    [a EXCEPT !.stride = stride, !.grallocBuffers = Append(@, b), !.i = @ + 1]

\* The loop body after mali_gralloc_buffer_allocate returned 0 for buffer b.
allocate_succeeded(a, b, shm_ok, tmpStride) ==
    IF ~shm_ok THEN shared_memory_failed(a, b)
    ELSE IF a.stride = 0 THEN emplace_back(a, b, tmpStride)
    ELSE IF a.stride # tmpStride THEN stride_mismatch(a, b)
    ELSE emplace_back(a, b, a.stride)

\* One iteration of the loop of common::allocate; ok is whether
\* mali_gralloc_buffer_allocate returned 0.
allocate_iteration(a, ok, shm_ok, tmpStride) ==
    IF ~ok THEN [a EXCEPT !.error = "NO_RESOURCES", !.pc = "callback"]
    ELSE allocate_succeeded([a EXCEPT !.succeeded = @ \cup {a.i + 1}], a.i + 1,
                            shm_ok, tmpStride)

\* GrallocAllocator::allocate up to the loop of common::allocate: a descriptor
\* that does not decode is answered at once.
AllocatorAllocate ==
    /\ alloc.pc = "idle"
    /\ \E count \in 0 .. MaxCount, decode_ok \in BOOLEAN :
         alloc' = IF ~decode_ok
                  THEN [hidl_cb(alloc, "BAD_DESCRIPTOR", 0, << >>)
                          EXCEPT !.pc = "done", !.count = count]
                  ELSE [alloc EXCEPT !.pc = "loop", !.count = count, !.i = 0,
                                     !.error = "NONE", !.stride = 0,
                                     !.grallocBuffers = << >>]
    /\ UNCHANGED <<desc, res, before, hnd, drm, caps, ids>>

AllocIterated(a, shm_ok) ==
    /\ Allocated(a)
    /\ alloc' = allocate_iteration(alloc, a.hnd # NoHandle, shm_ok, a.d.pixel_stride)

AllocIterate ==
    /\ alloc.pc = "loop"
    /\ alloc.i < alloc.count
    /\ \E provider_ok \in BOOLEAN, shm_ok \in BOOLEAN :
         \E a \in {mali_gralloc_buffer_allocate(desc, provider_ok)} :
            AllocIterated(a, shm_ok)
    /\ UNCHANGED <<drm, caps>>

\* After the loop, by its condition or by break: hidl_cb is invoked.
AllocCallback ==
    /\ \/ alloc.pc = "callback"
       \/ alloc.pc = "loop" /\ alloc.i >= alloc.count
    /\ alloc' = [hidl_cb(alloc, alloc.error, alloc.stride,
                         callback_buffers(alloc.error, alloc.grallocBuffers))
                   EXCEPT !.pc = "free", !.k = 1]
    /\ UNCHANGED <<desc, res, before, hnd, drm, caps, ids>>

\* One iteration of "for (auto &buffer : grallocBuffers)".
AllocFree ==
    /\ alloc.pc = "free"
    /\ alloc.k <= Len(alloc.grallocBuffers)
    /\ alloc' = [mali_gralloc_buffer_free(alloc, alloc.grallocBuffers[alloc.k])
                   EXCEPT !.k = @ + 1]
    /\ UNCHANGED <<desc, res, before, hnd, drm, caps, ids>>

AllocReturn ==
    /\ alloc.pc = "free"
    /\ alloc.k > Len(alloc.grallocBuffers)
    /\ alloc' = [alloc EXCEPT !.pc = "done"]
    /\ UNCHANGED <<desc, res, before, hnd, drm, caps, ids>>

NextAlloc ==
    AllocatorAllocate \/ AllocIterate \/ AllocCallback \/ AllocFree \/ AllocReturn

SpecAlloc == InitAlloc /\ [][NextAlloc]_vars

\* The request runs on one binder thread that is not stopped.
SpecAllocFair == SpecAlloc /\ WF_vars(NextAlloc)

(***************************************************************************)
(* Properties of the allocator.                                            *)
(***************************************************************************)
\* hidl_cb was invoked at most once, not before the loop ended, and with a
\* buffer list that holds the count buffers when error is NONE and nothing
\* otherwise.
C27_CallbackShape ==
    /\ Len(alloc.called) <= 1
    /\ alloc.pc \in {"idle", "loop", "callback"} => alloc.called = << >>
    /\ alloc.pc \in {"free", "done"} => Len(alloc.called) = 1
    /\ \A j \in 1 .. Len(alloc.called) :
         IF alloc.called[j].error = "NONE"
         THEN alloc.called[j].buffers = [b \in 1 .. alloc.count |-> b]
         ELSE alloc.called[j].buffers = << >>

\* C27: every allocate request invokes the result callback exactly once, on
\* every path; the buffer list of the callback is non-empty only when the
\* error is NONE, then it holds exactly count handles, and on any error it is
\* empty.
C27_CallbackExactlyOnce == []C27_CallbackShape /\ <>(alloc.pc = "done")

\* The second allocation failed after the first was put on the list.
C27_Witness ==
    /\ alloc.pc = "done" /\ alloc.count = 2
    /\ alloc.grallocBuffers = <<1>>
    /\ Len(alloc.called) = 1
    /\ alloc.called[1].error = "NO_RESOURCES"
    /\ alloc.called[1].buffers = << >>

\* The number of mali_gralloc_buffer_free calls on buffer b.
C28_Frees(b) == Cardinality({ j \in 1 .. Len(alloc.frees) : alloc.frees[j].buffer = b })

\* C28: in common::allocate every buffer for which mali_gralloc_buffer_allocate
\* succeeded is passed to mali_gralloc_buffer_free exactly once before allocate
\* returns, never twice, and a buffer of the result list is freed only after
\* the callback was invoked.
C28_FreedExactlyOnce ==
    /\ \A j \in 1 .. Len(alloc.frees) : alloc.frees[j].buffer \in alloc.succeeded
    /\ \A b \in alloc.succeeded : C28_Frees(b) <= 1
    /\ alloc.pc = "done" => \A b \in alloc.succeeded : C28_Frees(b) = 1
    /\ \A j \in 1 .. Len(alloc.frees) :
         (\E n \in 1 .. Len(alloc.grallocBuffers) :
             alloc.grallocBuffers[n] = alloc.frees[j].buffer)
         => alloc.frees[j].after_cb

\* Two buffers were allocated; the second was freed inside the loop, the
\* first after the callback.
C28_Witness ==
    /\ alloc.pc = "done" /\ alloc.succeeded = {1, 2}
    /\ alloc.frees = <<[buffer |-> 2, after_cb |-> FALSE], [buffer |-> 1, after_cb |-> TRUE]>>

====
